---- MODULE Spec2Model ----
(***************************************************************************)
(* Qartar/algebra: a term-rewriting simplifier.                            *)
(*                                                                         *)
(* The module models src/src/expression.cpp: the expression tree, the      *)
(* recursive matcher (match_r), the substituter (apply_transform_r), the   *)
(* total compare used by the ordered containers, the memoized neighbour    *)
(* enumeration (enumerate_transforms) over the bootstrap rule table        *)
(* (transform_strings, parsed by src/src/parser.cpp and converted by       *)
(* convert_placeholders), and the best-first search (simplify) with its    *)
(* traceback.                                                              *)
(*                                                                         *)
(* A double is modelled exactly as a pair (n, d): the non-negative         *)
(* rational n/d in lowest terms, (1, 0) for +infinity and (0, 0) for NaN.  *)
(* The parser only produces non-negative literals and the numeric          *)
(* reduction of a difference never produces a negative value, so no other  *)
(* double is reachable from a parsed input.  assert() is active (the       *)
(* sources never define NDEBUG): a failing assertion aborts the process.   *)
(***************************************************************************)
EXTENDS Integers, Sequences, FiniteSets, TLC

(***************************************************************************)
(* Bounds of the model.                                                    *)
(***************************************************************************)
\* largest max_iterations budget a call is started with
MaxIters == 4
\* number of calls of simplify or enumerate_transforms in one run of the process
MaxCalls == 1
\* largest max_operations budget a call is started with
MaxOps == 4

VARIABLES
    pc,              \* "idle", "loop" (at the loop test), "exit" (after a break), "aborted"
    input,           \* the arguments of the simplify call: expr,
    max_operations,
    max_iterations,
    closed,          \* the locals of simplify
    queue,
    trace,
    best,
    best_ops,
    ii,
    cached,          \* the static map of enumerate_transforms
    transforms,      \* the global rule table
    printed,         \* the lines traceback printed in the call
    result,          \* the expression the call returned
    failure,         \* what aborted the process, "none" while it runs
    calls,           \* calls made so far
    popped,          \* history: the expressions popped in the call, in order
    expanded,        \* history: the expressions enumerated in the call, in order
    enumerated,      \* history: the last top-level call of enumerate_transforms
    called,          \* history: the last direct call of match or compare
    earlier          \* history: the call of simplify an earlier run of the process made


(***************************************************************************)
(* Expressions: std::variant<empty, op, function, constant, value, symbol, *)
(* placeholder>.                                                           *)
(***************************************************************************)
Empty == [k |-> "empty"]

Op(type, lhs, rhs) == [k |-> "op", type |-> type, lhs |-> lhs, rhs |-> rhs]

Function(f) == [k |-> "function", f |-> f]

Constant(c) == [k |-> "constant", c |-> c]

Value(n, d) == [k |-> "value", n |-> n, d |-> d]

Symbol(s) == [k |-> "symbol", s |-> s]

Placeholder(p) == [k |-> "placeholder", p |-> p]

\* what placeholders.at() throws for an unbound placeholder
OutOfRange == [k |-> "out_of_range"]

(***************************************************************************)
(* Doubles.                                                                *)
(***************************************************************************)
NaN == Value(0, 0)

Infinity == Value(1, 0)

\* a result this representation cannot hold (an irrational power)
Inexact == Value(2, 0)

IsNaN(v) == v.d = 0 /\ v.n = 0

IsInf(v) == v.d = 0 /\ v.n = 1

IsFinite(v) == v.d > 0

RECURSIVE Gcd(_, _)
Gcd(a, b) == IF b = 0 THEN a ELSE Gcd(b, a % b)

\* the rational n/d (d > 0, n >= 0) in lowest terms
Rational(n, d) == LET g == Gcd(n, d) IN Value(n \div g, d \div g)

\* lhs + rhs
value_add(lhs, rhs) ==
    IF IsNaN(lhs) \/ IsNaN(rhs) THEN NaN
    ELSE IF IsInf(lhs) \/ IsInf(rhs) THEN Infinity
    ELSE Rational(lhs.n * rhs.d + rhs.n * lhs.d, lhs.d * rhs.d)

\* lhs < rhs
value_less(lhs, rhs) ==
    IF IsNaN(lhs) \/ IsNaN(rhs) THEN FALSE
    ELSE IF IsInf(lhs) THEN FALSE
    ELSE IF IsInf(rhs) THEN TRUE
    ELSE lhs.n * rhs.d < rhs.n * lhs.d

\* lhs == rhs
value_eq(lhs, rhs) == ~IsNaN(lhs) /\ ~IsNaN(rhs) /\ lhs = rhs

\* lhs - rhs, for the operands the code subtracts: never lhs < rhs
value_sub(lhs, rhs) ==
    IF IsNaN(lhs) \/ IsNaN(rhs) THEN NaN
    ELSE IF IsInf(lhs) THEN (IF IsInf(rhs) THEN NaN ELSE Infinity)
    ELSE Rational(lhs.n * rhs.d - rhs.n * lhs.d, lhs.d * rhs.d)

\* lhs * rhs
value_mul(lhs, rhs) ==
    IF IsNaN(lhs) \/ IsNaN(rhs) THEN NaN
    ELSE IF IsInf(lhs) \/ IsInf(rhs)
         THEN (IF lhs.n = 0 \/ rhs.n = 0 THEN NaN ELSE Infinity)
    ELSE Rational(lhs.n * rhs.n, lhs.d * rhs.d)

\* lhs / rhs
value_div(lhs, rhs) ==
    IF IsNaN(lhs) \/ IsNaN(rhs) THEN NaN
    ELSE IF IsInf(lhs) THEN (IF IsInf(rhs) THEN NaN ELSE Infinity)
    ELSE IF IsInf(rhs) THEN Value(0, 1)
    ELSE IF rhs.n = 0 THEN (IF lhs.n = 0 THEN NaN ELSE Infinity)
    ELSE Rational(lhs.n * rhs.d, lhs.d * rhs.n)

RECURSIVE IntPow(_, _)
IntPow(b, e) == IF e = 0 THEN 1 ELSE b * IntPow(b, e - 1)

\* std::pow(lhs, rhs)
value_pow(lhs, rhs) ==
    IF rhs = Value(0, 1) \/ lhs = Value(1, 1) THEN Value(1, 1)
    ELSE IF IsNaN(lhs) \/ IsNaN(rhs) THEN NaN
    ELSE IF IsInf(rhs)
         THEN (IF value_less(lhs, Value(1, 1)) THEN Value(0, 1) ELSE Infinity)
    ELSE IF IsInf(lhs) THEN Infinity
    ELSE IF lhs.n = 0 THEN Value(0, 1)
    ELSE IF rhs.d = 1 THEN Value(IntPow(lhs.n, rhs.n), IntPow(lhs.d, rhs.n))
    ELSE Inexact

(***************************************************************************)
(* op_count: the total number of operations in the expression.             *)
(***************************************************************************)
RECURSIVE op_count(_)
op_count(expr) ==
    IF expr.k = "op"
    THEN 1 + op_count(expr.lhs) + op_count(expr.rhs)
    ELSE 0

(***************************************************************************)
(* Evaluation order.  With(v, F) is F(v) with v evaluated once, before F   *)
(* is entered: the value of a call that the code stores in a local and     *)
(* then reads several times.                                               *)
(***************************************************************************)
With(v, F(_)) == CHOOSE y \in {F(x) : x \in {v}} : TRUE

(***************************************************************************)
(* match_r: unify lhs with rhs, binding placeholders.  The result is the   *)
(* returned bool and the caller's map after the call.                      *)
(***************************************************************************)
\* an assignment of the copy of the map back to the caller's on failure too
commit_always(r, placeholders) == r

\* the copy of the map is assigned back to the caller's only on success
commit(r, placeholders) == IF r.ok THEN r ELSE [ok |-> FALSE, pl |-> placeholders]

RECURSIVE match_r(_, _, _)
match_r(lhs, rhs, placeholders) ==
    IF lhs.k = "placeholder" /\ rhs.k = "placeholder"
    THEN [ok |-> lhs.p = rhs.p, pl |-> placeholders]
    ELSE IF lhs.k = "placeholder" \/ rhs.k = "placeholder"
    THEN IF lhs.k = "placeholder"
         THEN IF lhs.p \in DOMAIN placeholders
              THEN With(match_r(placeholders[lhs.p], rhs, placeholders),
                        LAMBDA r : commit(r, placeholders))
              ELSE [ok |-> TRUE, pl |-> (lhs.p :> rhs) @@ placeholders]
         ELSE match_r(rhs, lhs, placeholders)
    ELSE IF lhs.k = "value" /\ rhs.k = "value"
    THEN [ok |-> value_eq(lhs, rhs), pl |-> placeholders]
    ELSE IF lhs.k = "constant" /\ rhs.k = "constant"
    THEN [ok |-> lhs.c = rhs.c, pl |-> placeholders]
    ELSE IF lhs.k = "symbol" /\ rhs.k = "symbol"
    THEN [ok |-> lhs.s = rhs.s, pl |-> placeholders]
    ELSE IF lhs.k = "op" /\ rhs.k = "op"
    THEN IF lhs.type # rhs.type
         THEN [ok |-> FALSE, pl |-> placeholders]
         ELSE With(match_r(lhs.lhs, rhs.lhs, placeholders), LAMBDA l :
                  IF ~l.ok
                  THEN [ok |-> FALSE, pl |-> placeholders]
                  ELSE With(match_r(lhs.rhs, rhs.rhs, l.pl),
                            LAMBDA r : commit(r, placeholders)))
    ELSE IF lhs.k = "function" /\ rhs.k = "function"
    THEN [ok |-> lhs.f = rhs.f, pl |-> placeholders]
    ELSE IF lhs.k = "empty" /\ rhs.k = "empty"
    THEN [ok |-> TRUE, pl |-> placeholders]
    ELSE [ok |-> FALSE, pl |-> placeholders]

\* match(lhs, rhs, placeholders): commits the bindings on success only
match(lhs, rhs, placeholders) ==
    With(match_r(lhs, rhs, placeholders), LAMBDA r : commit(r, placeholders))

\* the empty std::map<placeholder, expression>
NoPlaceholders == <<>>

(***************************************************************************)
(* enumerate_placeholders: the placeholders occurring in the expression.   *)
(***************************************************************************)
RECURSIVE enumerate_placeholders(_)
enumerate_placeholders(expr) ==
    IF expr.k = "op"
    THEN enumerate_placeholders(expr.lhs) \cup enumerate_placeholders(expr.rhs)
    ELSE IF expr.k = "placeholder" THEN {expr.p}
    ELSE {}

match_placeholders(map, set) ==
    IF Cardinality(DOMAIN map) # Cardinality(set)
    THEN FALSE
    ELSE \A p \in set : p \in DOMAIN map

(***************************************************************************)
(* apply_transform_r: instantiate target under the binding.                *)
(***************************************************************************)
\* a substitution that leaves the placeholders of target in place; the
\* neighbours are placeholder-free only because apply_transform_r replaces them
keep_placeholders(source, target, placeholders) == target

\* a substitution that finds no placeholder of target in the map
RECURSIVE apply_unbound(_, _, _)
apply_unbound(source, target, placeholders) ==
    IF target.k = "placeholder"
    THEN OutOfRange
    ELSE IF target.k = "op"
    THEN Op(target.type,
            apply_unbound(source, target.lhs, placeholders),
            apply_unbound(source, target.rhs, placeholders))
    ELSE target

RECURSIVE apply_transform_r(_, _, _)
apply_transform_r(source, target, placeholders) ==
    IF target.k = "placeholder"
    THEN IF target.p \in DOMAIN placeholders
         THEN placeholders[target.p]
         ELSE OutOfRange
    ELSE IF target.k = "op"
    THEN Op(target.type,
            apply_transform_r(source, target.lhs, placeholders),
            apply_transform_r(source, target.rhs, placeholders))
    ELSE target

\* the exception of placeholders.at() propagates out of the recursion
RECURSIVE Throws(_)
Throws(expr) ==
    IF expr.k = "op" THEN Throws(expr.lhs) \/ Throws(expr.rhs)
    ELSE expr.k = "out_of_range"

(***************************************************************************)
(* compare: the order of the ordered containers (expression_cmp).          *)
(***************************************************************************)
\* index of x in the sequence seq
IndexOf(seq, x) == CHOOSE i \in 1..Len(seq) : seq[i] = x

\* the alternatives of the variant, in index order
VariantOrder ==
    <<"empty", "op", "function", "constant", "value", "symbol", "placeholder">>

\* enum class op_type, in declaration order
OpTypeOrder ==
    <<"equality", "comma", "sum", "difference", "negative", "product",
      "quotient", "reciprocal", "exponent", "logarithm", "function",
      "derivative", "integral", "differential">>

\* enum class function, in declaration order
FunctionOrder ==
    <<"exponent", "logarithm", "sine", "cosine", "tangent", "secant",
      "cosecant", "cotangent">>

\* enum class constant, in declaration order
ConstantOrder == <<"undefined", "pi", "e", "i">>

\* the symbols of the inputs, in std::string order
SymbolOrder == <<"x", "y", "z">>

RECURSIVE compare(_, _)
compare(lhs, rhs) ==
    LET d == IndexOf(VariantOrder, lhs.k) - IndexOf(VariantOrder, rhs.k)
    IN  IF d < 0 THEN -1
        ELSE IF d = 0
        THEN IF lhs.k = "empty" THEN 0
             ELSE IF lhs.k = "op"
             THEN IF IndexOf(OpTypeOrder, lhs.type) < IndexOf(OpTypeOrder, rhs.type)
                  THEN -1
                  ELSE IF lhs.type = rhs.type
                  THEN With(compare(lhs.lhs, rhs.lhs), LAMBDA d2 :
                           IF d2 < 0 THEN -1
                           ELSE IF d2 = 0 THEN compare(lhs.rhs, rhs.rhs)
                           ELSE 1)
                  ELSE 1
             ELSE IF lhs.k = "function"
             THEN IndexOf(FunctionOrder, lhs.f) - IndexOf(FunctionOrder, rhs.f)
             ELSE IF lhs.k = "constant"
             THEN IndexOf(ConstantOrder, lhs.c) - IndexOf(ConstantOrder, rhs.c)
             ELSE IF lhs.k = "value"
             \* dv = lhs - rhs; dv < 0.0, dv == 0.0, else: a NaN dv lands in else
             THEN IF value_less(lhs, rhs) THEN -1
                  ELSE IF IsFinite(lhs) /\ IsFinite(rhs) /\ lhs = rhs THEN 0
                  ELSE 1
             ELSE IF lhs.k = "symbol"
             THEN IndexOf(SymbolOrder, lhs.s) - IndexOf(SymbolOrder, rhs.s)
             ELSE lhs.p - rhs.p
        ELSE 1

expression_cmp(lhs, rhs) == compare(lhs, rhs) < 0

\* neither is ordered before the other: the containers take them for one key
Equivalent(lhs, rhs) == ~expression_cmp(lhs, rhs) /\ ~expression_cmp(rhs, lhs)

(***************************************************************************)
(* The rule table.                                                         *)
(***************************************************************************)
\* the letters 'a'..'z'
Letters ==
    <<"a", "b", "c", "d", "e", "f", "g", "h", "i", "j", "k", "l", "m",
      "n", "o", "p", "q", "r", "s", "t", "u", "v", "w", "x", "y", "z">>

\* static_cast<int>(placeholder::x)
placeholder_x == 23

\* convert symbols into placeholders so they can be used for substitution
RECURSIVE convert_placeholders(_)
convert_placeholders(expr) ==
    IF expr.k = "op"
    THEN Op(expr.type, convert_placeholders(expr.lhs), convert_placeholders(expr.rhs))
    ELSE IF expr.k = "symbol"
    THEN Placeholder(placeholder_x + (IndexOf(Letters, expr.s) - 1))
    ELSE expr

\* parse(str) of every transform_strings entry: the two sides of the equality
parsed_transform_strings == <<
    \* (x + y) + z = x + (y + z)
    [source |-> Op("sum", Op("sum", Symbol("x"), Symbol("y")), Symbol("z")),
     target |-> Op("sum", Symbol("x"), Op("sum", Symbol("y"), Symbol("z")))],
    \* (x * y) * z = x * (y * z)
    [source |-> Op("product", Op("product", Symbol("x"), Symbol("y")), Symbol("z")),
     target |-> Op("product", Symbol("x"), Op("product", Symbol("y"), Symbol("z")))],
    \* x + y = y + x
    [source |-> Op("sum", Symbol("x"), Symbol("y")),
     target |-> Op("sum", Symbol("y"), Symbol("x"))],
    \* x * y = y * x
    [source |-> Op("product", Symbol("x"), Symbol("y")),
     target |-> Op("product", Symbol("y"), Symbol("x"))],
    \* a * (x + y) = a * x + a * y
    [source |-> Op("product", Symbol("a"), Op("sum", Symbol("x"), Symbol("y"))),
     target |-> Op("sum", Op("product", Symbol("a"), Symbol("x")), Op("product", Symbol("a"), Symbol("y")))],
    \* x + 0 = x
    [source |-> Op("sum", Symbol("x"), Value(0, 1)),
     target |-> Symbol("x")],
    \* x * 1 = x
    [source |-> Op("product", Symbol("x"), Value(1, 1)),
     target |-> Symbol("x")],
    \* x * 0 = 0
    [source |-> Op("product", Symbol("x"), Value(0, 1)),
     target |-> Value(0, 1)],
    \* x + (-x) = 0
    [source |-> Op("sum", Symbol("x"), Op("negative", Symbol("x"), Empty)),
     target |-> Value(0, 1)],
    \* -x = 0 - x
    [source |-> Op("negative", Symbol("x"), Empty),
     target |-> Op("difference", Value(0, 1), Symbol("x"))],
    \* x + (-y) = x - y
    [source |-> Op("sum", Symbol("x"), Op("negative", Symbol("y"), Empty)),
     target |-> Op("difference", Symbol("x"), Symbol("y"))],
    \* x * (x^-1) = 1
    [source |-> Op("product", Symbol("x"), Op("exponent", Symbol("x"), Op("negative", Value(1, 1), Empty))),
     target |-> Value(1, 1)],
    \* 1/x = 1 / x
    [source |-> Op("quotient", Value(1, 1), Symbol("x")),
     target |-> Op("quotient", Value(1, 1), Symbol("x"))],
    \* x * (1/y) = x / y
    [source |-> Op("product", Symbol("x"), Op("quotient", Value(1, 1), Symbol("y"))),
     target |-> Op("quotient", Symbol("x"), Symbol("y"))],
    \* x + x = x * 2
    [source |-> Op("sum", Symbol("x"), Symbol("x")),
     target |-> Op("product", Symbol("x"), Value(2, 1))],
    \* x * x = x ^ 2
    [source |-> Op("product", Symbol("x"), Symbol("x")),
     target |-> Op("exponent", Symbol("x"), Value(2, 1))],
    \* log(x * y, b) = log(x, b) + log(y, b)
    [source |-> Op("logarithm", Op("product", Symbol("x"), Symbol("y")), Symbol("b")),
     target |-> Op("sum", Op("logarithm", Symbol("x"), Symbol("b")), Op("logarithm", Symbol("y"), Symbol("b")))],
    \* log(x, b) = log(x, y) / log(b, y)
    [source |-> Op("logarithm", Symbol("x"), Symbol("b")),
     target |-> Op("quotient", Op("logarithm", Symbol("x"), Symbol("y")), Op("logarithm", Symbol("b"), Symbol("y")))],
    \* b ^ log(x, b) = x
    [source |-> Op("exponent", Symbol("b"), Op("logarithm", Symbol("x"), Symbol("b"))),
     target |-> Symbol("x")],
    \* b ^ x * b ^ y = b ^ (x + y)
    [source |-> Op("product", Op("exponent", Symbol("b"), Symbol("x")), Op("exponent", Symbol("b"), Symbol("y"))),
     target |-> Op("exponent", Symbol("b"), Op("sum", Symbol("x"), Symbol("y")))],
    \* (b ^ x) ^ y = b ^ (x * y)
    [source |-> Op("exponent", Op("exponent", Symbol("b"), Symbol("x")), Symbol("y")),
     target |-> Op("exponent", Symbol("b"), Op("product", Symbol("x"), Symbol("y")))],
    \* (x * y) ^ n = (x ^ n) * (y ^ n)
    [source |-> Op("exponent", Op("product", Symbol("x"), Symbol("y")), Symbol("n")),
     target |-> Op("product", Op("exponent", Symbol("x"), Symbol("n")), Op("exponent", Symbol("y"), Symbol("n")))],
    \* x ^ 0 = 1
    [source |-> Op("exponent", Symbol("x"), Value(0, 1)),
     target |-> Value(1, 1)],
    \* x ^ 1 = x
    [source |-> Op("exponent", Symbol("x"), Value(1, 1)),
     target |-> Symbol("x")],
    \* log(1, x) = 0
    [source |-> Op("logarithm", Value(1, 1), Symbol("x")),
     target |-> Value(0, 1)],
    \* log(x, e) = ln(x)
    [source |-> Op("logarithm", Symbol("x"), Constant("e")),
     target |-> Op("function", Function("logarithm"), Symbol("x"))],
    \* log(x, y) = ln(x) / ln(y)
    [source |-> Op("logarithm", Symbol("x"), Symbol("y")),
     target |-> Op("quotient", Op("function", Function("logarithm"), Symbol("x")), Op("function", Function("logarithm"), Symbol("y")))],
    \* e ^ x = exp(x)
    [source |-> Op("exponent", Constant("e"), Symbol("x")),
     target |-> Op("function", Function("exponent"), Symbol("x"))],
    \* a ^ x = exp(x * ln(a))
    [source |-> Op("exponent", Symbol("a"), Symbol("x")),
     target |-> Op("function", Function("exponent"), Op("product", Symbol("x"), Op("function", Function("logarithm"), Symbol("a"))))],
    \* i ^ 2 = -1
    [source |-> Op("exponent", Constant("i"), Value(2, 1)),
     target |-> Op("negative", Value(1, 1), Empty)],
    \* e ^ (i * x) = cos(x) + i * sin(x)
    [source |-> Op("exponent", Constant("e"), Op("product", Constant("i"), Symbol("x"))),
     target |-> Op("sum", Op("function", Function("cosine"), Symbol("x")), Op("product", Constant("i"), Op("function", Function("sine"), Symbol("x"))))],
    \* sin(0) = 0
    [source |-> Op("function", Function("sine"), Value(0, 1)),
     target |-> Value(0, 1)],
    \* cos(0) = 1
    [source |-> Op("function", Function("cosine"), Value(0, 1)),
     target |-> Value(1, 1)],
    \* sin(pi/2) = 1
    [source |-> Op("function", Function("sine"), Op("quotient", Constant("pi"), Value(2, 1))),
     target |-> Value(1, 1)],
    \* cos(pi/2) = 0
    [source |-> Op("function", Function("cosine"), Op("quotient", Constant("pi"), Value(2, 1))),
     target |-> Value(0, 1)],
    \* tan(x) = sin(x) / cos(x)
    [source |-> Op("function", Function("tangent"), Symbol("x")),
     target |-> Op("quotient", Op("function", Function("sine"), Symbol("x")), Op("function", Function("cosine"), Symbol("x")))],
    \* sec(x) = 1 / cos(x)
    [source |-> Op("function", Function("secant"), Symbol("x")),
     target |-> Op("quotient", Value(1, 1), Op("function", Function("cosine"), Symbol("x")))],
    \* csc(x) = 1 / sin(x)
    [source |-> Op("function", Function("cosecant"), Symbol("x")),
     target |-> Op("quotient", Value(1, 1), Op("function", Function("sine"), Symbol("x")))],
    \* cot(x) = 1 / tan(x)
    [source |-> Op("function", Function("cotangent"), Symbol("x")),
     target |-> Op("quotient", Value(1, 1), Op("function", Function("tangent"), Symbol("x")))],
    \* 1 = sin(x) ^ 2 + cos(x) ^ 2
    [source |-> Value(1, 1),
     target |-> Op("sum", Op("exponent", Op("function", Function("sine"), Symbol("x")), Value(2, 1)), Op("exponent", Op("function", Function("cosine"), Symbol("x")), Value(2, 1)))],
    \* sin(-x) = -sin(x)
    [source |-> Op("function", Function("sine"), Op("negative", Symbol("x"), Empty)),
     target |-> Op("negative", Op("function", Function("sine"), Symbol("x")), Empty)],
    \* cos(-x) = cos(x)
    [source |-> Op("function", Function("cosine"), Op("negative", Symbol("x"), Empty)),
     target |-> Op("function", Function("cosine"), Symbol("x"))],
    \* tan(-x) = -tan(x)
    [source |-> Op("function", Function("tangent"), Op("negative", Symbol("x"), Empty)),
     target |-> Op("negative", Op("function", Function("tangent"), Symbol("x")), Empty)],
    \* sin(pi/2 - x) = cos(x)
    [source |-> Op("function", Function("sine"), Op("difference", Op("quotient", Constant("pi"), Value(2, 1)), Symbol("x"))),
     target |-> Op("function", Function("cosine"), Symbol("x"))],
    \* cos(pi/2 - x) = sin(x)
    [source |-> Op("function", Function("cosine"), Op("difference", Op("quotient", Constant("pi"), Value(2, 1)), Symbol("x"))),
     target |-> Op("function", Function("sine"), Symbol("x"))],
    \* tan(pi/2 - x) = cot(x)
    [source |-> Op("function", Function("tangent"), Op("difference", Op("quotient", Constant("pi"), Value(2, 1)), Symbol("x"))),
     target |-> Op("function", Function("cotangent"), Symbol("x"))],
    \* sin(pi - x) = sin(x)
    [source |-> Op("function", Function("sine"), Op("difference", Constant("pi"), Symbol("x"))),
     target |-> Op("function", Function("sine"), Symbol("x"))],
    \* cos(pi - x) = -cos(x)
    [source |-> Op("function", Function("cosine"), Op("difference", Constant("pi"), Symbol("x"))),
     target |-> Op("negative", Op("function", Function("cosine"), Symbol("x")), Empty)],
    \* tan(pi - x) = -tan(x)
    [source |-> Op("function", Function("tangent"), Op("difference", Constant("pi"), Symbol("x"))),
     target |-> Op("negative", Op("function", Function("tangent"), Symbol("x")), Empty)],
    \* sin(2pi - x) = sin(-x)
    [source |-> Op("function", Function("sine"), Op("difference", Op("product", Value(2, 1), Constant("pi")), Symbol("x"))),
     target |-> Op("function", Function("sine"), Op("negative", Symbol("x"), Empty))],
    \* cos(2pi - x) = cos(-x)
    [source |-> Op("function", Function("cosine"), Op("difference", Op("product", Value(2, 1), Constant("pi")), Symbol("x"))),
     target |-> Op("function", Function("cosine"), Op("negative", Symbol("x"), Empty))],
    \* tan(2pi - x) = tan(-x)
    [source |-> Op("function", Function("tangent"), Op("difference", Op("product", Value(2, 1), Constant("pi")), Symbol("x"))),
     target |-> Op("function", Function("tangent"), Op("negative", Symbol("x"), Empty))],
    \* sin(x + y) = sin(x) * cos(y) + cos(x) * sin(y)
    [source |-> Op("function", Function("sine"), Op("sum", Symbol("x"), Symbol("y"))),
     target |-> Op("sum", Op("product", Op("function", Function("sine"), Symbol("x")), Op("function", Function("cosine"), Symbol("y"))), Op("product", Op("function", Function("cosine"), Symbol("x")), Op("function", Function("sine"), Symbol("y"))))],
    \* sin(x - y) = sin(x) * cos(y) - cos(x) * sin(y)
    [source |-> Op("function", Function("sine"), Op("difference", Symbol("x"), Symbol("y"))),
     target |-> Op("difference", Op("product", Op("function", Function("sine"), Symbol("x")), Op("function", Function("cosine"), Symbol("y"))), Op("product", Op("function", Function("cosine"), Symbol("x")), Op("function", Function("sine"), Symbol("y"))))],
    \* cos(x + y) = cos(x) * cos(y) - sin(x) * sin(y)
    [source |-> Op("function", Function("cosine"), Op("sum", Symbol("x"), Symbol("y"))),
     target |-> Op("difference", Op("product", Op("function", Function("cosine"), Symbol("x")), Op("function", Function("cosine"), Symbol("y"))), Op("product", Op("function", Function("sine"), Symbol("x")), Op("function", Function("sine"), Symbol("y"))))],
    \* cos(x - y) = cos(x) * cos(y) + sin(x) * sin(y)
    [source |-> Op("function", Function("cosine"), Op("difference", Symbol("x"), Symbol("y"))),
     target |-> Op("sum", Op("product", Op("function", Function("cosine"), Symbol("x")), Op("function", Function("cosine"), Symbol("y"))), Op("product", Op("function", Function("sine"), Symbol("x")), Op("function", Function("sine"), Symbol("y"))))],
    \* sin(2pi + x) = sin(x)
    [source |-> Op("function", Function("sine"), Op("sum", Op("product", Value(2, 1), Constant("pi")), Symbol("x"))),
     target |-> Op("function", Function("sine"), Symbol("x"))],
    \* cos(2pi + x) = cos(x)
    [source |-> Op("function", Function("cosine"), Op("sum", Op("product", Value(2, 1), Constant("pi")), Symbol("x"))),
     target |-> Op("function", Function("cosine"), Symbol("x"))],
    \* tan(2pi + x) = tan(x)
    [source |-> Op("function", Function("tangent"), Op("sum", Op("product", Value(2, 1), Constant("pi")), Symbol("x"))),
     target |-> Op("function", Function("tangent"), Symbol("x"))],
    \* sin(2x) = 2 * sin(x) * cos(x)
    [source |-> Op("function", Function("sine"), Op("product", Value(2, 1), Symbol("x"))),
     target |-> Op("product", Op("product", Value(2, 1), Op("function", Function("sine"), Symbol("x"))), Op("function", Function("cosine"), Symbol("x")))],
    \* cos(2x) = cos(x) ^ 2 - sin(x) ^ 2
    [source |-> Op("function", Function("cosine"), Op("product", Value(2, 1), Symbol("x"))),
     target |-> Op("difference", Op("exponent", Op("function", Function("cosine"), Symbol("x")), Value(2, 1)), Op("exponent", Op("function", Function("sine"), Symbol("x")), Value(2, 1)))],
    \* cos(2x) = 2 * cos(x) ^ 2 - 1
    [source |-> Op("function", Function("cosine"), Op("product", Value(2, 1), Symbol("x"))),
     target |-> Op("difference", Op("product", Value(2, 1), Op("exponent", Op("function", Function("cosine"), Symbol("x")), Value(2, 1))), Value(1, 1))],
    \* sin(3x) = 3 * sin(x) - 4 * sin(x) ^ 3
    [source |-> Op("function", Function("sine"), Op("product", Value(3, 1), Symbol("x"))),
     target |-> Op("difference", Op("product", Value(3, 1), Op("function", Function("sine"), Symbol("x"))), Op("product", Value(4, 1), Op("exponent", Op("function", Function("sine"), Symbol("x")), Value(3, 1))))],
    \* cos(3x) = 4 * cos(x) ^ 3 - 3 * cos(x)
    [source |-> Op("function", Function("cosine"), Op("product", Value(3, 1), Symbol("x"))),
     target |-> Op("difference", Op("product", Value(4, 1), Op("exponent", Op("function", Function("cosine"), Symbol("x")), Value(3, 1))), Op("product", Value(3, 1), Op("function", Function("cosine"), Symbol("x"))))],
    \* sin(x) ^ 2 = (1 - cos(2x)) / 2
    [source |-> Op("exponent", Op("function", Function("sine"), Symbol("x")), Value(2, 1)),
     target |-> Op("quotient", Op("difference", Value(1, 1), Op("function", Function("cosine"), Op("product", Value(2, 1), Symbol("x")))), Value(2, 1))],
    \* cos(x) ^ 2 = (1 + cos(2x)) / 2
    [source |-> Op("exponent", Op("function", Function("cosine"), Symbol("x")), Value(2, 1)),
     target |-> Op("quotient", Op("sum", Value(1, 1), Op("function", Function("cosine"), Op("product", Value(2, 1), Symbol("x")))), Value(2, 1))],
    \* d/dx(f + g) = d/dx(f) + d/dx(g)
    [source |-> Op("derivative", Symbol("x"), Op("sum", Symbol("f"), Symbol("g"))),
     target |-> Op("sum", Op("derivative", Symbol("x"), Symbol("f")), Op("derivative", Symbol("x"), Symbol("g")))],
    \* d/dx(f - g) = d/dx(f) - d/dx(g)
    [source |-> Op("derivative", Symbol("x"), Op("difference", Symbol("f"), Symbol("g"))),
     target |-> Op("difference", Op("derivative", Symbol("x"), Symbol("f")), Op("derivative", Symbol("x"), Symbol("g")))],
    \* d/dx(f * g) = d/dx(f) * g + f * d/dx(g)
    [source |-> Op("derivative", Symbol("x"), Op("product", Symbol("f"), Symbol("g"))),
     target |-> Op("sum", Op("product", Op("derivative", Symbol("x"), Symbol("f")), Symbol("g")), Op("product", Symbol("f"), Op("derivative", Symbol("x"), Symbol("g"))))],
    \* d/dx(f / g) = (d/dx(f) * g - f * d/dx(g)) / g^2
    [source |-> Op("derivative", Symbol("x"), Op("quotient", Symbol("f"), Symbol("g"))),
     target |-> Op("quotient", Op("difference", Op("product", Op("derivative", Symbol("x"), Symbol("f")), Symbol("g")), Op("product", Symbol("f"), Op("derivative", Symbol("x"), Symbol("g")))), Op("exponent", Symbol("g"), Value(2, 1)))],
    \* d/dx(x) = 1
    [source |-> Op("derivative", Symbol("x"), Symbol("x")),
     target |-> Value(1, 1)],
    \* d/dx(x ^ r) = r * x ^ (r - 1)
    [source |-> Op("derivative", Symbol("x"), Op("exponent", Symbol("x"), Symbol("r"))),
     target |-> Op("product", Symbol("r"), Op("exponent", Symbol("x"), Op("difference", Symbol("r"), Value(1, 1))))],
    \* d/dx(ln(x)) = 1/x
    [source |-> Op("derivative", Symbol("x"), Op("function", Function("logarithm"), Symbol("x"))),
     target |-> Op("quotient", Value(1, 1), Symbol("x"))],
    \* d/dx(ln(f)) = d/dx(f) / x
    [source |-> Op("derivative", Symbol("x"), Op("function", Function("logarithm"), Symbol("f"))),
     target |-> Op("quotient", Op("derivative", Symbol("x"), Symbol("f")), Symbol("x"))],
    \* d/dx(exp(x)) = exp(x)
    [source |-> Op("derivative", Symbol("x"), Op("function", Function("exponent"), Symbol("x"))),
     target |-> Op("function", Function("exponent"), Symbol("x"))],
    \* d/dx(exp(f)) = d/dx(f) * exp(f)
    [source |-> Op("derivative", Symbol("x"), Op("function", Function("exponent"), Symbol("f"))),
     target |-> Op("product", Op("derivative", Symbol("x"), Symbol("f")), Op("function", Function("exponent"), Symbol("f")))],
    \* d/dx(sin(x)) = cos(x)
    [source |-> Op("derivative", Symbol("x"), Op("function", Function("sine"), Symbol("x"))),
     target |-> Op("function", Function("cosine"), Symbol("x"))],
    \* d/dx(cos(x)) = -sin(x)
    [source |-> Op("derivative", Symbol("x"), Op("function", Function("cosine"), Symbol("x"))),
     target |-> Op("negative", Op("function", Function("sine"), Symbol("x")), Empty)],
    \* d/dx(tan(x)) = sec(x) ^ 2
    [source |-> Op("derivative", Symbol("x"), Op("function", Function("tangent"), Symbol("x"))),
     target |-> Op("exponent", Op("function", Function("secant"), Symbol("x")), Value(2, 1))],
    \* d/dx(sin(f)) = d/dx(f) * cos(f)
    [source |-> Op("derivative", Symbol("x"), Op("function", Function("sine"), Symbol("f"))),
     target |-> Op("product", Op("derivative", Symbol("x"), Symbol("f")), Op("function", Function("cosine"), Symbol("f")))],
    \* d/dx(cos(f)) = d/dx(f) * -sin(f)
    [source |-> Op("derivative", Symbol("x"), Op("function", Function("cosine"), Symbol("f"))),
     target |-> Op("product", Op("derivative", Symbol("x"), Symbol("f")), Op("negative", Op("function", Function("sine"), Symbol("f")), Empty))],
    \* d/dx(tan(f)) = d/dx(f) * sec(f) ^ 2
    [source |-> Op("derivative", Symbol("x"), Op("function", Function("tangent"), Symbol("f"))),
     target |-> Op("product", Op("derivative", Symbol("x"), Symbol("f")), Op("exponent", Op("function", Function("secant"), Symbol("f")), Value(2, 1)))]
>>

\* the table resolve_transforms builds on its first call
resolved_table ==
    [i \in 1..Len(parsed_transform_strings) |->
        [source |-> convert_placeholders(parsed_transform_strings[i].source),
         target |-> convert_placeholders(parsed_transform_strings[i].target)]]

\* resolve_transforms(): the table after the call, given the table before
resolve_transforms(table) == IF Len(table) # 0 THEN table ELSE resolved_table

(***************************************************************************)
(* The ordered containers (std::set and std::map with expression_cmp).     *)
(* A container takes two expressions for the same key when neither is      *)
(* ordered before the other.  Where a key holds a NaN the order is not a   *)
(* strict weak order; a lookup is modelled as finding the first key, in    *)
(* the order of the container, that is equivalent to the one looked up.    *)
(***************************************************************************)
\* every Value leaf of expr is a finite number
RECURSIVE all_finite(_)
all_finite(expr) ==
    IF expr.k = "op" THEN all_finite(expr.lhs) /\ all_finite(expr.rhs)
    ELSE IF expr.k = "value" THEN IsFinite(expr)
    ELSE TRUE

\* the keys of a container that a lookup of expr can land on
equal_range(keys, expr) == {key \in keys : Equivalent(key, expr)}

\* the first of a non-empty set of keys in the order of the container
lower_bound(keys) == CHOOSE key \in keys : \A other \in keys : ~expression_cmp(other, key)

\* find(expr) in a container with these keys: the set of the key found,
\* empty for end()
find(keys, expr) ==
    With(equal_range(keys, expr), LAMBDA range :
        IF range = {} THEN {} ELSE {lower_bound(range)})

\* std::set::insert: dropped when the set holds an equivalent element
set_insert(set, expr) == IF equal_range(set, expr) # {} THEN set ELSE set \cup {expr}

\* inserts of seq[lo], ..., seq[hi], in order
RECURSIVE insert_all(_, _, _, _)
insert_all(set, seq, lo, hi) ==
    IF lo > hi THEN set
    ELSE IF lo = hi THEN set_insert(set, seq[lo])
    ELSE With(insert_all(set, seq, lo, (lo + hi) \div 2), LAMBDA half :
             insert_all(half, seq, (lo + hi) \div 2 + 1, hi))

\* the elements of a std::set in iteration order: the i-th one has i - 1
\* elements ordered before it
in_order(set) ==
    With({<<Cardinality({other \in set : expression_cmp(other, expr)}), expr>> : expr \in set},
         LAMBDA before :
             [i \in 1..Cardinality(set) |-> (CHOOSE pair \in before : pair[1] = i - 1)[2]])

\* the elements of seq as a set
Range(seq) == {seq[i] : i \in 1..Len(seq)}

\* the concatenation of the sequences seqs[lo], ..., seqs[hi]
RECURSIVE Flatten(_, _, _)
Flatten(seqs, lo, hi) ==
    IF lo > hi THEN <<>>
    ELSE IF lo = hi THEN seqs[lo]
    ELSE Flatten(seqs, lo, (lo + hi) \div 2) \o Flatten(seqs, (lo + hi) \div 2 + 1, hi)

(***************************************************************************)
(* enumerate_transforms: the memoized neighbour enumeration.               *)
(***************************************************************************)
\* one direction of a rule: match expr against pattern from expr_placeholders
\* and, if that binds the merged placeholders, insert the replacement.  The
\* result is what is inserted into out, what stops the call ("none", a
\* failed assertion or the exception of placeholders.at()) and
\* expr_placeholders afterwards
apply_direction(expr, pattern, replacement, merged_placeholders, expr_placeholders) ==
    With(match(expr, pattern, expr_placeholders), LAMBDA m :
        IF ~(m.ok /\ match_placeholders(m.pl, merged_placeholders))
        THEN [out |-> <<>>, failed |-> "none", pl |-> m.pl]
        ELSE With(apply_transform_r(expr, replacement, m.pl), LAMBDA expr_tr :
            IF Throws(expr_tr)
            THEN [out |-> <<>>, failed |-> "out_of_range", pl |-> m.pl]
            ELSE With(match(expr_tr, replacement, m.pl), LAMBDA a :
                [out |-> <<expr_tr>>,
                 failed |-> IF ~a.ok THEN "assert_match"
                            ELSE IF enumerate_placeholders(expr_tr) # {}
                            THEN "assert_placeholders"
                            ELSE "none",
                 pl |-> a.pl])))

\* a direction that is not tried
not_tried(expr_placeholders) == [out |-> <<>>, failed |-> "none", pl |-> expr_placeholders]

\* one pass of the loop over the rule table: the expressions the rule
\* inserts into out, in order, and the first thing that stops the pass.
\* expr_placeholders is declared once per pass: the target direction starts
\* from whatever the source direction left in it
transform_step(expr, tr) ==
    LET source_placeholders == enumerate_placeholders(tr.source)
        target_placeholders == enumerate_placeholders(tr.target)
        merged_placeholders == source_placeholders \cup target_placeholders
        try_source == Cardinality(source_placeholders) = Cardinality(merged_placeholders)
        try_target == Cardinality(target_placeholders) = Cardinality(merged_placeholders)
    IN  IF ~(try_source \/ try_target) THEN [out |-> <<>>, failed |-> "assert_merged"]
        ELSE With(IF try_source
                  THEN apply_direction(expr, tr.source, tr.target,
                                       merged_placeholders, NoPlaceholders)
                  ELSE not_tried(NoPlaceholders),
                  LAMBDA s :
             IF s.failed # "none" THEN [out |-> <<>>, failed |-> s.failed]
             ELSE With(IF try_target
                       THEN apply_direction(expr, tr.target, tr.source,
                                            merged_placeholders, s.pl)
                       ELSE not_tried(s.pl),
                       LAMBDA t : [out |-> s.out \o t.out, failed |-> t.failed]))

\* the loop over the rule table
enumerate_rules(expr, table) ==
    With([i \in 1..Len(table) |-> transform_step(expr, table[i])], LAMBDA steps :
        With({i \in 1..Len(table) : steps[i].failed # "none"}, LAMBDA stopped :
            IF stopped # {}
            THEN [out |-> <<>>,
                  failed |-> steps[CHOOSE i \in stopped : \A j \in stopped : i <= j].failed]
            ELSE [out |-> Flatten([i \in 1..Len(table) |-> steps[i].out], 1, Len(table)),
                  failed |-> "none"]))

\* simplify algebraic value expressions
value_expressions(expr) ==
    IF expr.k = "op" /\ expr.lhs.k = "value" /\ expr.rhs.k = "value"
    THEN LET lhs == expr.lhs
             rhs == expr.rhs
         IN  CASE expr.type = "sum" -> <<value_add(lhs, rhs)>>
               [] expr.type = "difference" ->
                    IF value_less(lhs, rhs)
                    THEN <<Op("reciprocal", value_sub(rhs, lhs), Empty)>>
                    ELSE <<value_sub(lhs, rhs)>>
               [] expr.type = "product" -> <<value_mul(lhs, rhs)>>
               [] expr.type = "quotient" -> <<value_div(lhs, rhs)>>
               [] expr.type = "exponent" -> <<value_pow(lhs, rhs)>>
               [] OTHER -> <<>>
    ELSE <<>>

\* the children of the loops over lhs_tr and rhs_tr, in insertion order
expand_lhs(expr, lhs_tr) ==
    [i \in 1..Len(lhs_tr) |-> Op(expr.type, lhs_tr[i], expr.rhs)]

expand_rhs(expr, rhs_tr) ==
    [i \in 1..Len(rhs_tr) |-> Op(expr.type, expr.lhs, rhs_tr[i])]

\* the std::set out of an op after all its inserts: those of the rules,
\* then the children of lhs_tr, those of rhs_tr and the numeric reduction.
\* Where every element is finite the order is total, and the only inserts
\* dropped are those of an element already there
out_of_op(expr, rules, lhs_tr, rhs_tr) ==
    With(Range(rules)
            \cup {Op(expr.type, tr, expr.rhs) : tr \in lhs_tr}
            \cup {Op(expr.type, expr.lhs, tr) : tr \in rhs_tr}
            \cup Range(value_expressions(expr)),
         LAMBDA all :
        IF \A tr \in all : all_finite(tr) THEN all
        ELSE With(rules \o expand_lhs(expr, in_order(lhs_tr))
                        \o expand_rhs(expr, in_order(rhs_tr))
                        \o value_expressions(expr),
                  LAMBDA seq : insert_all({}, seq, 1, Len(seq))))

\* the std::set out of an expression that is no op
out_of_leaf(rules) ==
    IF \A tr \in Range(rules) : all_finite(tr) THEN Range(rules)
    ELSE insert_all({}, rules, 1, Len(rules))

\* what a call that does not return leaves behind
stopped_by(failed, cache) == [out |-> {}, cached |-> cache, failed |-> failed]

\* what a call that returns out leaves behind: cached[expr] = out
returned(expr, out, cache) ==
    [out |-> out,
     cached |-> With(find(DOMAIN cache, expr), LAMBDA it :
                    IF it = {} THEN (expr :> out) @@ cache
                    ELSE [cache EXCEPT ![CHOOSE key \in it : TRUE] = out]),
     failed |-> "none"]

\* enumerate_transforms(expr) with the static map cached (cache) and the rule
\* table: the returned set, the map after the call, and what stopped the
\* call ("none" when it returned)
RECURSIVE enumerate_transforms(_, _, _)
enumerate_transforms(expr, cache, table) ==
    With(find(DOMAIN cache, expr), LAMBDA it :
    IF it # {}
    THEN [out |-> cache[CHOOSE key \in it : TRUE], cached |-> cache, failed |-> "none"]
    ELSE With(enumerate_rules(expr, table), LAMBDA rules :
         IF rules.failed # "none" THEN stopped_by(rules.failed, cache)
         ELSE IF expr.k # "op"
         THEN With(out_of_leaf(rules.out), LAMBDA out : returned(expr, out, cache))
         ELSE With(enumerate_transforms(expr.lhs, cache, table), LAMBDA lhs_tr :
              IF lhs_tr.failed # "none" THEN stopped_by(lhs_tr.failed, cache)
              ELSE With(enumerate_transforms(expr.rhs, lhs_tr.cached, table), LAMBDA rhs_tr :
                   IF rhs_tr.failed # "none" THEN stopped_by(rhs_tr.failed, cache)
                   ELSE With(out_of_op(expr, rules.out, lhs_tr.out, rhs_tr.out),
                             LAMBDA out : returned(expr, out, rhs_tr.cached))))))

(***************************************************************************)
(* to_string and traceback.  A std::string is the sequence of its          *)
(* characters.                                                             *)
(***************************************************************************)
Digits == <<"0", "1", "2", "3", "4", "5", "6", "7", "8", "9">>

\* the decimal digits of the natural number n
RECURSIVE to_digits(_)
to_digits(n) ==
    IF n < 10 THEN <<Digits[n + 1]>> ELSE to_digits(n \div 10) \o <<Digits[(n % 10) + 1]>>

\* the decimal digits of n, padded with zeros on the left to width w
RECURSIVE pad_digits(_, _)
pad_digits(n, w) == IF w = 0 THEN <<>> ELSE pad_digits(n \div 10, w - 1) \o <<Digits[(n % 10) + 1]>>

\* seq without its trailing "0" characters
RECURSIVE strip_zeros(_)
strip_zeros(seq) ==
    IF seq # <<>> /\ seq[Len(seq)] = "0" THEN strip_zeros(SubSeq(seq, 1, Len(seq) - 1))
    ELSE seq

\* the decimal exponent of the positive rational n/d, the X with
\* 10^X <= n/d < 10^(X+1), searched from X away from zero
RECURSIVE exponent10(_, _, _)
exponent10(n, d, X) ==
    IF n >= d
    THEN IF n < d * IntPow(10, X + 1) THEN X ELSE exponent10(n, d, X + 1)
    ELSE IF n * IntPow(10, -X) >= d THEN X ELSE exponent10(n, d, X - 1)

\* precision of "%g" and the exponents between which it prints fixed notation
g_precision == 6

g_min_exponent == -4

\* n/d * 10^s rounded to the nearest integer
scaled(n, d, s) ==
    IF s >= 0 THEN (2 * n * IntPow(10, s) + d) \div (2 * d)
    ELSE (2 * n + d * IntPow(10, -s)) \div (2 * d * IntPow(10, -s))

\* std::snprintf(buf, 256, "%g", v)
format_g(v) ==
    IF IsNaN(v) THEN <<"-", "n", "a", "n">>
    ELSE IF ~IsFinite(v) THEN <<"i", "n", "f">>
    ELSE IF v.n = 0 THEN <<"0">>
    ELSE LET X0 == exponent10(v.n, v.d, 0)
             m0 == scaled(v.n, v.d, g_precision - 1 - X0)
             carry == m0 = IntPow(10, g_precision)
             X == IF carry THEN X0 + 1 ELSE X0
             m == IF carry THEN m0 \div 10 ELSE m0
             digits == pad_digits(m, g_precision)
         IN  IF X < g_min_exponent \/ X >= g_precision
             THEN LET frac == strip_zeros(Tail(digits))
                      absX == IF X < 0 THEN -X ELSE X
                  IN  <<Head(digits)>>
                      \o (IF frac = <<>> THEN <<>> ELSE <<".">> \o frac)
                      \o <<"e", IF X < 0 THEN "-" ELSE "+">>
                      \o (IF absX < 10 THEN <<"0">> ELSE <<>>) \o to_digits(absX)
             ELSE IF X >= 0
             THEN LET frac == strip_zeros(SubSeq(digits, X + 2, g_precision))
                  IN  SubSeq(digits, 1, X + 1)
                      \o (IF frac = <<>> THEN <<>> ELSE <<".">> \o frac)
             ELSE <<"0", ".">> \o pad_digits(0, -X - 1) \o strip_zeros(digits)

\* the name of a function tag inside a function call, up to the argument
function_prefix(fn) ==
    CASE fn = "exponent" -> <<"e", "x", "p", "(">>
      [] fn = "logarithm" -> <<"l", "n", "(">>
      [] fn = "sine" -> <<"s", "i", "n", "(">>
      [] fn = "cosine" -> <<"c", "o", "s", "(">>
      [] fn = "tangent" -> <<"t", "a", "n", "(">>
      [] fn = "secant" -> <<"s", "e", "c", "(">>
      [] fn = "cosecant" -> <<"c", "s", "c", "(">>
      [] fn = "cotangent" -> <<"c", "o", "t", "(">>

\* the character 'a' + p: a letter, or the code of a character past 'z'
placeholder_char(p) == IF p < Len(Letters) THEN Letters[p + 1] ELSE <<"chr", 97 + p>>

\* the op types to_string has a case for, with the text before, between and
\* after the operands; rhs = FALSE for the unary shapes
op_text(type) ==
    CASE type = "comma" -> [pre |-> <<>>, mid |-> <<",", " ">>, post |-> <<>>, rhs |-> TRUE]
      [] type = "equality" -> [pre |-> <<>>, mid |-> <<" ", "=", " ">>, post |-> <<>>, rhs |-> TRUE]
      [] type = "sum" -> [pre |-> <<"(">>, mid |-> <<" ", "+", " ">>, post |-> <<")">>, rhs |-> TRUE]
      [] type = "difference" -> [pre |-> <<"(">>, mid |-> <<" ", "-", " ">>, post |-> <<")">>, rhs |-> TRUE]
      [] type = "negative" -> [pre |-> <<"(", "-">>, mid |-> <<>>, post |-> <<")">>, rhs |-> FALSE]
      [] type = "product" -> [pre |-> <<"(">>, mid |-> <<" ", "*", " ">>, post |-> <<")">>, rhs |-> TRUE]
      [] type = "quotient" -> [pre |-> <<"(">>, mid |-> <<" ", "/", " ">>, post |-> <<")">>, rhs |-> TRUE]
      [] type = "reciprocal" -> [pre |-> <<"(", "1", "/">>, mid |-> <<>>, post |-> <<")">>, rhs |-> FALSE]
      [] type = "exponent" -> [pre |-> <<"(">>, mid |-> <<" ", "^", " ">>, post |-> <<")">>, rhs |-> TRUE]
      [] type = "logarithm" -> [pre |-> <<"l", "o", "g", "(">>, mid |-> <<",", " ">>, post |-> <<")">>, rhs |-> TRUE]
      [] type = "derivative" -> [pre |-> <<"d", "/", "d">>, mid |-> <<"(">>, post |-> <<")">>, rhs |-> TRUE]

\* the op types that fall to "default: assert(0)"
op_without_text == {"integral", "differential"}

\* to_string(in): the text, and ok = FALSE when an assert(0) is reached
RECURSIVE to_string(_)
to_string(in) ==
    IF in.k = "op"
    THEN IF in.type = "function"
         THEN LET arg == to_string(in.rhs)
              IN  IF in.lhs.k = "function"
                  THEN [text |-> function_prefix(in.lhs.f) \o arg.text \o <<")">>, ok |-> arg.ok]
                  ELSE IF in.lhs.k \in {"symbol", "placeholder"}
                  THEN [text |-> to_string(in.lhs).text \o <<"(">> \o arg.text \o <<")">>,
                        ok |-> arg.ok]
                  ELSE [text |-> <<>>, ok |-> FALSE]
         ELSE IF in.type \in op_without_text THEN [text |-> <<>>, ok |-> FALSE]
         ELSE LET t == op_text(in.type)
                  l == to_string(in.lhs)
                  r == to_string(in.rhs)
              IN  IF t.rhs
                  THEN [text |-> t.pre \o l.text \o t.mid \o r.text \o t.post,
                        ok |-> l.ok /\ r.ok]
                  ELSE [text |-> t.pre \o l.text \o t.post, ok |-> l.ok]
    ELSE IF in.k = "value" THEN [text |-> format_g(in), ok |-> TRUE]
    ELSE IF in.k = "constant"
    THEN [text |-> CASE in.c = "undefined" -> <<"N", "/", "A">>
                     [] in.c = "pi" -> <<"p", "i">>
                     [] in.c = "e" -> <<"e">>
                     [] in.c = "i" -> <<"i">>,
          ok |-> TRUE]
    ELSE IF in.k = "symbol" THEN [text |-> <<in.s>>, ok |-> TRUE]
    ELSE IF in.k = "placeholder" THEN [text |-> <<placeholder_char(in.p)>>, ok |-> TRUE]
    ELSE IF in.k = "empty" THEN [text |-> <<>>, ok |-> TRUE]
    ELSE [text |-> <<>>, ok |-> FALSE]

\* the line traceback prints for expr: "(%zu) %s\n"
trace_line(expr) == [ops |-> op_count(expr), expr |-> expr, text |-> to_string(expr).text]

\* traceback(expr, trace), with trace as parent: the expressions of the printed lines, first line
\* first; depth counts the nested calls, and a chain longer than the map
\* (a cycle) never starts printing: it ends in the marker OutOfRange
RECURSIVE traceback(_, _, _)
traceback(expr, parent, depth) ==
    IF depth > Cardinality(DOMAIN parent) THEN <<OutOfRange>>
    ELSE With(find(DOMAIN parent, expr), LAMBDA prev :
             IF prev # {}
             THEN traceback(parent[CHOOSE key \in prev : TRUE], parent, depth + 1) \o <<expr>>
             ELSE <<expr>>)

(***************************************************************************)
(* The process: calls of simplify and of enumerate_transforms.             *)
(***************************************************************************)
\* parse("ln(e^x)")
LnExp == Op("function", Function("logarithm"), Op("exponent", Constant("e"), Symbol("x")))

\* parse("x"), parse("x + 0"), parse("x + x"), parse("0/0 + x"),
\* parse("0/0 + 0/0"), parse("0/0 * (1 * x)"), parse("ln(e^x)") and the
\* Empty expression parse delivers for a parse error
Inputs ==
    { Empty,
      LnExp,
      Symbol("x"),
      Op("sum", Symbol("x"), Value(0, 1)),
      Op("sum", Symbol("x"), Symbol("x")),
      Op("sum", Op("quotient", Value(0, 1), Value(0, 1)), Symbol("x")),
      Op("sum", Op("quotient", Value(0, 1), Value(0, 1)),
                Op("quotient", Value(0, 1), Value(0, 1))),
      Op("product", Op("quotient", Value(0, 1), Value(0, 1)),
                    Op("product", Value(1, 1), Symbol("x"))) }

\* the arguments of the direct calls of enumerate_transforms: the sums and
\* products over x and 0, nested twice
Leaves == {Symbol("x"), Value(0, 1)}

Nested(terms) == terms \cup {Op(type, lhs, rhs) : type \in {"sum", "product"},
                                                  lhs \in terms, rhs \in terms}

Terms == Nested(Nested(Leaves))

\* the values of the operations over two values: parse("0"), parse("1"),
\* parse("2"), and the leaves numeric reduction makes of 1/0 and 0/0
Values == {Value(0, 1), Value(1, 1), Value(2, 1), Infinity, NaN}

\* the unary and function-call shapes and the Empty expression: parse("-x"),
\* parse("1/x"), parse("ln(e^x)") and the outcome of a parse error
ShapeTerms ==
    {Empty, LnExp, Op("negative", Symbol("x"), Empty), Op("reciprocal", Symbol("x"), Empty)}

\* the sums, differences and products of two values
ValueTerms ==
    {Op(type, lhs, rhs) : type \in {"sum", "difference", "product"}, lhs \in Values, rhs \in Values}

\* what result holds while no call has returned
NoResult == [k |-> "no_result"]

\* what enumerated holds before the first call of enumerate_transforms
NotEnumerated == [expr |-> Empty, out |-> {}, hit |-> FALSE, failed |-> "not_called"]

\* what called holds before the first direct call of match or compare
NotCalled == [fn |-> "none"]

\* what earlier holds in the first run of the process
NoEarlier == [pc |-> "none"]

vars == <<pc, input, max_operations, max_iterations, closed, queue, trace, best,
          best_ops, ii, cached, transforms, printed, result, failure, calls,
          popped, expanded, enumerated, called, earlier>>

Init ==
    /\ pc = "idle"
    /\ input = Empty
    /\ max_operations = 0
    /\ max_iterations = 0
    /\ closed = {}
    /\ queue = {}
    /\ trace = <<>>
    /\ best = Empty
    /\ best_ops = 0
    /\ ii = 0
    /\ cached = <<>>
    /\ transforms = <<>>
    /\ printed = <<>>
    /\ result = NoResult
    /\ failure = "none"
    /\ calls = 0
    /\ popped = <<>>
    /\ expanded = <<>>
    /\ enumerated = NotEnumerated
    /\ called = NotCalled
    /\ earlier = NoEarlier

\* a start of simplify that leaves best an Empty expression instead of the
\* input
Start_best_empty(e, mo, mi) ==
    /\ pc = "idle"
    /\ pc' = "loop"
    /\ input' = e
    /\ max_operations' = mo
    /\ max_iterations' = mi
    /\ queue' = {e}
    /\ closed' = {e}
    /\ trace' = <<>>
    /\ best' = Empty
    /\ best_ops' = 0
    /\ ii' = 0
    /\ printed' = <<>>
    /\ result' = NoResult
    /\ calls' = calls + 1
    /\ popped' = <<>>
    /\ expanded' = <<>>
    /\ UNCHANGED <<cached, transforms, failure, enumerated, called, earlier>>

\* simplify(e, mo, mi) up to the first test of the loop
Start(e, mo, mi) ==
    /\ pc = "idle"
    /\ pc' = "loop"
    /\ input' = e
    /\ max_operations' = mo
    /\ max_iterations' = mi
    /\ queue' = {e}
    /\ closed' = {e}
    /\ trace' = <<>>
    /\ best' = e
    /\ best_ops' = op_count(e)
    /\ ii' = 0
    /\ printed' = <<>>
    /\ result' = NoResult
    /\ calls' = calls + 1
    /\ popped' = <<>>
    /\ expanded' = <<>>
    /\ UNCHANGED <<cached, transforms, failure, enumerated, called, earlier>>

\* a call of simplify, while the run has calls left
Call(e, mo, mi) == calls < MaxCalls /\ Start(e, mo, mi)

\* a loop test that admits one iteration more
Looping_inclusive == pc = "loop" /\ ii <= max_iterations /\ queue # {}

\* a loop test that stops one iteration early
Looping_short == pc = "loop" /\ ii + 1 < max_iterations /\ queue # {}

\* the loop test holds
Looping == pc = "loop" /\ ii < max_iterations /\ queue # {}

\* a top that is any element of the queue
IsTop_any(next) == next \in queue

\* queue.top(): an element no other element is ordered before by
\* expression_queue_cmp; which one among equal operation counts is up to
\* the heap
IsTop(next) == next \in queue /\ \A other \in queue : op_count(next) <= op_count(other)

\* no cutoff on the operation count at all
exceeded_never(next_ops, max_ops) == FALSE

\* a cutoff that lets an expression of exactly max_ops operations through
exceeded_strict(next_ops, max_ops) == next_ops > max_ops

\* "exceeded maximum complexity"
exceeded(next_ops, max_ops) == next_ops >= max_ops

\* a search that does not stop at an expression without operations
never_zero(next_ops) == FALSE

\* a cutoff that stops at one operation instead of none
is_one(next_ops) == next_ops = 1

\* "can't get any simpler than zero"
is_zero(next_ops) == next_ops = 0

\* an update of best that takes every popped expression
Pop_always(next) ==
    /\ popped' = Append(popped, next)
    /\ best' = next
    /\ best_ops' = op_count(next)

\* an update of best that never takes the popped expression
Pop_never(next) ==
    /\ popped' = Append(popped, next)
    /\ UNCHANGED <<best, best_ops>>

\* an update of best that takes a popped expression of the same size too
Pop_ties(next) ==
    /\ popped' = Append(popped, next)
    /\ IF op_count(next) <= best_ops
       THEN best' = next /\ best_ops' = op_count(next)
       ELSE UNCHANGED <<best, best_ops>>

\* the update of best after queue.pop(), common to every iteration
Pop(next) ==
    /\ popped' = Append(popped, next)
    /\ IF op_count(next) < best_ops
       THEN best' = next /\ best_ops' = op_count(next)
       ELSE UNCHANGED <<best, best_ops>>

\* an iteration that ends in "exceeded maximum complexity"
BreakMaxOperations(next) ==
    /\ Looping
    /\ IsTop(next)
    /\ exceeded(op_count(next), max_operations)
    /\ Pop(next)
    /\ queue' = queue \ {next}
    /\ pc' = "exit"
    /\ UNCHANGED <<input, max_operations, max_iterations, closed, trace, ii, cached,
                   transforms, printed, result, failure, calls, expanded, enumerated,
                   called, earlier>>

\* an iteration that ends in "can't get any simpler than zero"
BreakZero(next) ==
    /\ Looping
    /\ IsTop(next)
    /\ ~exceeded(op_count(next), max_operations)
    /\ is_zero(op_count(next))
    /\ Pop(next)
    /\ queue' = queue \ {next}
    /\ pc' = "exit"
    /\ UNCHANGED <<input, max_operations, max_iterations, closed, trace, ii, cached,
                   transforms, printed, result, failure, calls, expanded, enumerated,
                   called, earlier>>

\* a map that takes the parent for a child of itself as well
Assign_parent(map, keys, value) == [key \in keys \cup {value} |-> value] @@ map

\* a map with the entries of keys added, each to value
Assign(map, keys, value) == [key \in keys |-> value] @@ map

\* a test of the closed set that takes every neighbour for new
always_new(set, next_tr) == TRUE

\* closed.find(next_tr) == closed.end()
not_closed(set, next_tr) == equal_range(set, next_tr) = {}

\* an iteration that enumerates the neighbours of next and pushes the new ones
Expand(next) ==
    /\ Looping
    /\ IsTop(next)
    /\ ~exceeded(op_count(next), max_operations)
    /\ ~is_zero(op_count(next))
    /\ Pop(next)
    /\ \E table \in {resolve_transforms(transforms)} :
       \E tr \in {enumerate_transforms(next, cached, table)} :
       \E fresh \in {{next_tr \in tr.out : not_closed(closed, next_tr)}} :
           /\ transforms' = table
           /\ expanded' = Append(expanded, next)
           /\ enumerated' = [expr |-> next, out |-> tr.out,
                             hit |-> equal_range(DOMAIN cached, next) # {},
                             failed |-> tr.failed]
           /\ IF tr.failed = "none"
              THEN /\ closed' = closed \cup fresh
                   /\ queue' = (queue \ {next}) \cup fresh
                   /\ trace' = Assign(trace, fresh, next)
                   /\ cached' = tr.cached
                   /\ ii' = ii + 1
                   /\ pc' = "loop"
                   /\ UNCHANGED failure
              ELSE /\ pc' = "aborted"
                   /\ failure' = tr.failed
                   /\ queue' = queue \ {next}
                   /\ UNCHANGED <<closed, trace, cached, ii>>
    /\ UNCHANGED <<input, max_operations, max_iterations, printed, result, calls,
                   called, earlier>>

\* after the loop: traceback(best, trace) and return best
Return ==
    /\ pc = "exit" \/ (pc = "loop" /\ ~Looping)
    /\ \E lines \in {traceback(best, trace, 0)} :
       \E bad \in {{i \in 1..Len(lines) : ~to_string(lines[i]).ok}} :
           IF lines[1] = OutOfRange
           THEN pc' = "aborted" /\ failure' = "stack_overflow"
                /\ UNCHANGED <<printed, result>>
           ELSE IF bad # {}
           THEN /\ pc' = "aborted"
                /\ failure' = "assert_to_string"
                /\ printed' = [i \in 1..((CHOOSE i \in bad : \A j \in bad : i <= j) - 1)
                                  |-> trace_line(lines[i])]
                /\ UNCHANGED result
           ELSE /\ pc' = "idle"
                /\ printed' = [i \in 1..Len(lines) |-> trace_line(lines[i])]
                /\ result' = best
                /\ UNCHANGED failure
    /\ UNCHANGED <<input, max_operations, max_iterations, closed, queue, trace, best,
                   best_ops, ii, cached, transforms, calls, popped, expanded,
                   enumerated, called, earlier>>

\* a direct call enumerate_transforms(e)
Enumerate(e) ==
    /\ pc = "idle"
    /\ calls < MaxCalls
    /\ \E table \in {resolve_transforms(transforms)} :
       \E tr \in {enumerate_transforms(e, cached, table)} :
           /\ transforms' = table
           /\ enumerated' = [expr |-> e, out |-> tr.out,
                             hit |-> equal_range(DOMAIN cached, e) # {},
                             failed |-> tr.failed]
           /\ cached' = tr.cached
           /\ failure' = tr.failed
           /\ pc' = IF tr.failed = "none" THEN "idle" ELSE "aborted"
    /\ calls' = calls + 1
    /\ UNCHANGED <<input, max_operations, max_iterations, closed, queue, trace, best,
                   best_ops, ii, printed, result, popped, expanded, called, earlier>>

Next ==
    \/ \E e \in Inputs, mo \in 0..MaxOps, mi \in 0..MaxIters : Call(e, mo, mi)
    \/ \E next \in queue : BreakMaxOperations(next)
    \/ \E next \in queue : BreakZero(next)
    \/ \E next \in queue : Expand(next)
    \/ Return
    \/ \E e \in Terms \cup ValueTerms \cup ShapeTerms : Enumerate(e)

Spec == Init /\ [][Next]_vars

TypeOK ==
    /\ pc \in {"idle", "loop", "exit", "aborted"}
    /\ queue \subseteq closed
    /\ DOMAIN trace \subseteq closed
    /\ ii <= max_iterations
    /\ (pc = "aborted") = (failure # "none")
(***************************************************************************)
(* Properties of simplify and enumerate_transforms.                        *)
(***************************************************************************)
\* a call of simplify has returned; result, printed and the locals are
\* those of that call
Returned == result # NoResult

\* neighbors(expr) as an enumeration with nothing cached computes it
neighbors(expr) == enumerate_transforms(expr, <<>>, resolved_table).out

\* C1: the expression simplify returns has an operation count less than or
\* equal to that of the input, for every input and every pair of budgets
C1_ResultNotLarger == Returned => op_count(result) <= op_count(input)

\* a call has returned an expression with fewer operations than its input
C1_Witness == Returned /\ op_count(result) < op_count(input)

\* C2: the returned expression is reachable from the input: the printed
\* chain starts with the input and ends with the returned expression, each
\* printed expression is the trace parent of the next, and each link's
\* child is an element of neighbors(parent)
C2_TraceReachable ==
    Returned =>
        /\ printed # <<>>
        /\ printed[1].expr = input
        /\ printed[Len(printed)].expr = result
        /\ \A i \in 1..(Len(printed) - 1) :
              /\ printed[i + 1].expr \in DOMAIN trace
              /\ trace[printed[i + 1].expr] = printed[i].expr
              /\ printed[i + 1].expr \in neighbors(printed[i].expr)

\* C3: a call of simplify pops at most max_iterations expressions and then
\* prints the traceback and returns: no step of a running call pops more
\* than that or ends the call without a return
C3_TerminatesByMaxIters ==
    [][(pc \in {"loop", "exit"}) =>
          (pc' # "aborted" /\ Len(popped') <= max_iterations)]_vars

\* C4, as claimed: the operation count of the returned expression is less
\* than or equal to that of every expression enqueued during the call,
\* popped or not (closed holds exactly the expressions that were pushed)
C4_BestOfEnqueued == Returned => \A expr \in closed : op_count(result) <= op_count(expr)

\* C4, amended: the returned expression is the input or an expression that
\* was popped, and its operation count is less than or equal to that of the
\* input and of every expression popped during the call
C4_BestOfPopped ==
    Returned =>
        /\ result \in {input} \cup Range(popped)
        /\ op_count(result) <= op_count(input)
        /\ \A i \in DOMAIN popped : op_count(result) <= op_count(popped[i])

\* a call has returned while a smaller expression it had pushed was never
\* popped
C4_Witness ==
    /\ Returned
    /\ popped # <<>>
    /\ \E expr \in closed \ Range(popped) : op_count(expr) < op_count(result)

\* the binding of a successful match of pattern against expr from the empty
\* binding that binds exactly the placeholders of set, as a set of at most
\* one binding
bindings(expr, pattern, set) ==
    {m.pl : m \in {m \in {match(expr, pattern, NoPlaceholders)} :
                      m.ok /\ DOMAIN m.pl = set}}

\* the rule i of the table in one direction: from pattern to replacement
directions(i) ==
    { [pattern |-> resolved_table[i].source, replacement |-> resolved_table[i].target],
      [pattern |-> resolved_table[i].target, replacement |-> resolved_table[i].source] }

\* C5: an enumeration applies every rule in both directions independently:
\* for every rule and direction whose pattern holds all placeholders of the
\* rule, if the pattern matches the placeholder-free expression from the
\* empty binding, the instantiated replacement is among the neighbours,
\* whether or not the other direction matched
C5_BothDirections ==
    (enumerated.failed = "none" /\ ~enumerated.hit
        /\ enumerate_placeholders(enumerated.expr) = {}) =>
        \A i \in 1..Len(resolved_table) : \A d \in directions(i) :
            \A beta \in bindings(enumerated.expr, d.pattern,
                                 enumerate_placeholders(resolved_table[i].source)
                                    \cup enumerate_placeholders(resolved_table[i].target)) :
                apply_transform_r(enumerated.expr, d.replacement, beta) \in enumerated.out

\* C6: every neighbour of a placeholder-free expression is free of
\* placeholders, and the assertion on enumerate_placeholders(expr_tr) never
\* fails
C6_NeighborsPlaceholderFree ==
    enumerate_placeholders(enumerated.expr) = {} =>
        /\ enumerated.failed # "assert_placeholders"
        /\ \A tr \in enumerated.out : enumerate_placeholders(tr) = {}

\* an enumeration has returned neighbours made by a rule with placeholders
\* (x + 0 rewritten to x), by child expansion and by numeric reduction
C6_Witness ==
    /\ enumerated.failed = "none"
    /\ enumerated.expr = Op("sum", Op("sum", Symbol("x"), Value(0, 1)),
                                   Op("sum", Value(0, 1), Value(0, 1)))
    /\ Op("sum", Symbol("x"), Op("sum", Value(0, 1), Value(0, 1))) \in enumerated.out
    /\ Op("sum", Op("sum", Symbol("x"), Value(0, 1)), Value(0, 1)) \in enumerated.out

\* C7: memoization is transparent: the set a call of enumerate_transforms
\* returns, after whatever calls came before, is the set an enumeration
\* with nothing cached computes
C7_MemoizationTransparent ==
    enumerated.failed = "none" => enumerated.out = neighbors(enumerated.expr)

\* C8, as claimed: an input whose operation count equals max_operations is
\* popped once and returned, nothing is enumerated or pushed and the trace
\* stays empty
C8_AtMaxOperationsPoppedOnce ==
    (Returned /\ op_count(input) = max_operations) =>
        /\ popped = <<input>>
        /\ expanded = <<>>
        /\ closed = {input}
        /\ trace = <<>>
        /\ result = input

\* C8, amended: such an input is returned with nothing enumerated or pushed
\* and the trace empty; it is popped once when max_iterations is at least
\* one and not popped when max_iterations is zero
C8_AtMaxOperations ==
    (Returned /\ op_count(input) = max_operations) =>
        /\ popped = IF max_iterations = 0 THEN <<>> ELSE <<input>>
        /\ expanded = <<>>
        /\ closed = {input}
        /\ trace = <<>>
        /\ result = input

\* a call with an input of one operation and max_operations = 1 has popped
\* the input and returned
C8_Witness ==
    /\ Returned
    /\ op_count(input) = max_operations
    /\ max_operations > 0
    /\ popped = <<input>>

\* C9: with max_iterations = 0 simplify returns the input, the trace is
\* empty and nothing is popped or expanded
C9_ZeroIterations ==
    (max_iterations = 0 /\ (pc \in {"loop", "exit"} \/ Returned)) =>
        /\ popped = <<>>
        /\ expanded = <<>>
        /\ trace = <<>>
        /\ pc # "exit"
        /\ Returned => result = input /\ printed = <<trace_line(input)>>

\* a call with max_iterations = 0 has returned for an input that the
\* other budget would have let through to an expansion
C9_Witness ==
    /\ Returned
    /\ max_iterations = 0
    /\ op_count(input) > 0
    /\ op_count(input) < max_operations

\* C10, as claimed: for the Empty input simplify returns Empty, pops nothing
\* and enumerates nothing
C10_EmptyNoIterations ==
    (Returned /\ input = Empty) =>
        /\ result = Empty
        /\ popped = <<>>
        /\ expanded = <<>>

\* C10, amended: for the Empty input simplify returns Empty and enumerates
\* nothing; the loop pops Empty once and breaks when max_iterations is at
\* least one, and pops nothing when max_iterations is zero
C10_EmptyNoExpansion ==
    (Returned /\ input = Empty) =>
        /\ result = Empty
        /\ popped = IF max_iterations = 0 THEN <<>> ELSE <<Empty>>
        /\ expanded = <<>>
        /\ closed = {Empty}
        /\ trace = <<>>

\* a call with the Empty input has popped Empty and returned
C10_Witness == Returned /\ input = Empty /\ popped = <<Empty>>
(***************************************************************************)
(* The process with the rule table filled before the first call.           *)
(* transforms is an object of namespace scope with external linkage, and   *)
(* resolve_transforms leaves it alone when it is not empty: a table put    *)
(* there before the first call is the table every enumeration uses.        *)
(***************************************************************************)
\* a table of one rule of transform_strings: (x * y) * z = x * (y * z)
PresetTable == <<resolved_table[2]>>

InitPreset ==
    /\ pc = "idle"
    /\ input = Empty
    /\ max_operations = 0
    /\ max_iterations = 0
    /\ closed = {}
    /\ queue = {}
    /\ trace = <<>>
    /\ best = Empty
    /\ best_ops = 0
    /\ ii = 0
    /\ cached = <<>>
    /\ transforms = PresetTable
    /\ printed = <<>>
    /\ result = NoResult
    /\ failure = "none"
    /\ calls = 0
    /\ popped = <<>>
    /\ expanded = <<>>
    /\ enumerated = NotEnumerated
    /\ called = NotCalled
    /\ earlier = NoEarlier

SpecPreset == InitPreset /\ [][Next]_vars

\* the enumeration of expr with nothing cached under the table in use
enumeration(expr) == enumerate_transforms(expr, <<>>, resolve_transforms(transforms))

C12_ZeroNeighborFound ==
    (/\ Returned
     /\ max_iterations >= 2
     /\ op_count(input) < max_operations
     /\ \E n \in neighbors(input) : op_count(n) = 0) =>
        /\ op_count(result) = 0
        /\ input = Op("sum", Symbol("x"), Value(0, 1)) => result = Symbol("x")

\* x + 0 was expanded, its neighbour x was popped second and returned
C12_Witness ==
    /\ Returned
    /\ input = Op("sum", Symbol("x"), Value(0, 1))
    /\ max_iterations >= 2
    /\ op_count(input) < max_operations
    /\ expanded = <<input>>
    /\ popped = <<input, Symbol("x")>>
    /\ result = Symbol("x")
\* C13: simplify of ln(e^x) returns the symbol x, for budgets that let the
\* input be expanded and a second expression be popped
C13_LnExpToX ==
    (Returned /\ input = LnExp /\ max_operations > op_count(LnExp) /\ max_iterations >= 2) =>
        result = Symbol("x")
(***************************************************************************)
(* Direct calls of match, apply_transform_r and compare.  The arguments    *)
(* are drawn when the process starts; called holds them and, after the     *)
(* call, what the call returned.                                           *)
(***************************************************************************)
\* placeholder-free expressions: leaves of every variant, the values 0/0 and
\* 1/0 as numeric reduction produces them, and operations over them
Operands ==
    { Empty, Symbol("x"), Symbol("y"), Constant("e"), Function("logarithm"),
      Value(0, 1), Value(1, 1), NaN, Infinity,
      Op("sum", Symbol("x"), Value(0, 1)),
      Op("sum", Symbol("x"), Infinity),
      Op("product", Symbol("x"), Value(0, 1)) }

\* the expressions a binding maps a placeholder to
Bound == {Symbol("x"), Value(1, 1), NaN}

Sides == {"source", "target"}

\* the rules whose sides are matched from a binding that is not empty
MaxPatternRule == 12

\* the expressions matched with them
Concretes == Nested(Leaves) \cup {NaN, Op("sum", Symbol("x"), Value(1, 1))}

\* the maps that bind some of the placeholders of pattern
Bindings(pattern) ==
    UNION {[some -> {Symbol("x"), Value(0, 1)}] : some \in SUBSET enumerate_placeholders(pattern)}

\* the arguments of one direct call
Drawn ==
    {[fn |-> "convert_placeholders", args |-> <<Letters[i], Letters[j]>>, done |-> FALSE] :
        i \in 1..Len(Letters), j \in 1..Len(Letters)}
    \cup
    UNION {{[fn |-> "match_r", args |-> <<expr, resolved_table[i][side], before>>, done |-> FALSE] :
               expr \in Concretes, before \in Bindings(resolved_table[i][side])} :
           i \in 1..MaxPatternRule, side \in Sides}
    \cup
    {[fn |-> "match", args |-> <<e1, e2>>, done |-> FALSE] : e1 \in Operands, e2 \in Operands}
    \cup
    {[fn |-> "compare", args |-> <<a, b, c>>, done |-> FALSE] :
        a \in Operands, b \in Operands, c \in Operands}
    \cup
    UNION {{[fn |-> "apply_transform_r", args |-> <<i, side, beta>>, done |-> FALSE] :
               beta \in [enumerate_placeholders(resolved_table[i][side]) -> Bound]} :
           i \in 1..Len(resolved_table), side \in Sides}

InitPure ==
    /\ pc = "idle"
    /\ input = Empty
    /\ max_operations = 0
    /\ max_iterations = 0
    /\ closed = {}
    /\ queue = {}
    /\ trace = <<>>
    /\ best = Empty
    /\ best_ops = 0
    /\ ii = 0
    /\ cached = <<>>
    /\ transforms = <<>>
    /\ printed = <<>>
    /\ result = NoResult
    /\ failure = "none"
    /\ calls = 0
    /\ popped = <<>>
    /\ expanded = <<>>
    /\ enumerated = NotEnumerated
    /\ called \in Drawn
    /\ earlier = NoEarlier

\* the other variables of a direct call
Untouched ==
    UNCHANGED <<pc, input, max_operations, max_iterations, closed, queue, trace,
                best, best_ops, ii, cached, transforms, printed, result, failure,
                calls, popped, expanded, enumerated, earlier>>

\* match(e1, e2, placeholders) on an empty map, and compare(e1, e2)
MatchCall ==
    /\ called.fn = "match"
    /\ ~called.done
    /\ called' = [fn |-> "match", args |-> called.args, done |-> TRUE,
                  ret |-> [match |-> match(called.args[1], called.args[2], NoPlaceholders),
                           compare |-> compare(called.args[1], called.args[2])]]
    /\ Untouched

\* compare on the pairs of a, b, c
CompareCall ==
    /\ called.fn = "compare"
    /\ ~called.done
    /\ \E a \in {called.args[1]}, b \in {called.args[2]}, c \in {called.args[3]} :
          called' = [fn |-> "compare", args |-> called.args, done |-> TRUE,
                     ret |-> [aa |-> compare(a, a), ab |-> compare(a, b),
                              ba |-> compare(b, a), bc |-> compare(b, c),
                              ac |-> compare(a, c)]]
    /\ Untouched

\* apply_transform_r on a side of rule i under beta, then match of the
\* outcome with the side, from an empty map and from beta
RoundTripCall ==
    /\ called.fn = "apply_transform_r"
    /\ ~called.done
    /\ \E s \in {resolved_table[called.args[1]][called.args[2]]}, beta \in {called.args[3]} :
       \E expr_tr \in {apply_transform_r(s, s, beta)} :
          called' = [fn |-> "apply_transform_r", args |-> called.args, done |-> TRUE,
                     ret |-> [expr_tr |-> expr_tr,
                              fresh |-> match(expr_tr, s, NoPlaceholders),
                              again |-> match(expr_tr, s, beta)]]
    /\ Untouched

\* match(expr, pattern, placeholders) on a map that may hold bindings
MatchFromCall ==
    /\ called.fn = "match_r"
    /\ ~called.done
    /\ called' = [fn |-> "match_r", args |-> called.args, done |-> TRUE,
                  ret |-> match(called.args[1], called.args[2], called.args[3])]
    /\ Untouched

\* convert_placeholders on the symbols of two letters, and to_string of the
\* first outcome
ConvertCall ==
    /\ called.fn = "convert_placeholders"
    /\ ~called.done
    /\ \E first \in {convert_placeholders(Symbol(called.args[1]))} :
          called' = [fn |-> "convert_placeholders", args |-> called.args, done |-> TRUE,
                     ret |-> [first |-> first,
                              second |-> convert_placeholders(Symbol(called.args[2])),
                              text |-> to_string(first).text]]
    /\ Untouched

NextPure == MatchCall \/ CompareCall \/ RoundTripCall \/ MatchFromCall \/ ConvertCall

SpecPure == InitPure /\ [][NextPure]_vars

\* C14: for placeholder-free e1 and e2, match(e1, e2) from the empty binding
\* succeeds if and only if compare(e1, e2) = 0, and on success the binding is
\* still empty
C14_MatchIffCompareZero ==
    (called.fn = "match" /\ called.done) =>
        /\ called.ret.match.ok <=> (called.ret.compare = 0)
        /\ called.ret.match.ok => called.ret.match.pl = NoPlaceholders
\* sub is a part of the map sup
agrees(sub, sup) == \A p \in DOMAIN sub : p \in DOMAIN sup /\ sup[p] = sub[p]

\* C15: for a rule side s and a binding beta of its placeholders to
\* placeholder-free expressions, the match of apply(s, beta) with s from an
\* empty binding succeeds with a binding that agrees with beta, and the same
\* match from beta succeeds with a superset of beta
C15_RoundTrip ==
    (called.fn = "apply_transform_r" /\ called.done) =>
        /\ called.ret.fresh.ok
        /\ agrees(called.args[3], called.ret.fresh.pl)
        /\ called.ret.again.ok
        /\ agrees(called.args[3], called.ret.again.pl)

sign(n) == IF n < 0 THEN -1 ELSE IF n = 0 THEN 0 ELSE 1

\* C16: compare is a total order: compare(a, a) = 0, the sign of
\* compare(a, b) is the opposite of the sign of compare(b, a), and
\* compare(a, b) < 0 with compare(b, c) < 0 gives compare(a, c) < 0
C16_TotalOrder ==
    (called.fn = "compare" /\ called.done) =>
        /\ called.ret.aa = 0
        /\ sign(called.ret.ab) = -sign(called.ret.ba)
        /\ (called.ret.ab < 0 /\ called.ret.bc < 0) => called.ret.ac < 0
(***************************************************************************)
(* Two runs of the process.  The first run makes one call on a fresh       *)
(* process; the second run first simplifies another line, with the budgets *)
(* main passes for every line, and then makes the call of the first run    *)
(* again.  earlier holds the call of the first run and its outcome.        *)
(***************************************************************************)
\* the largest iteration budget of the calls of two runs
MaxItersTwoRuns == 3

\* the lines of the call that is repeated; no two expressions of equal
\* operation count compete for a pop of a fresh call on them
Probes ==
    { Symbol("x"),
      Op("sum", Symbol("x"), Value(0, 1)),
      Op("sum", Op("quotient", Value(0, 1), Value(0, 1)), Symbol("x")) }

\* the lines simplified before the repeated call: parse("1 + x"), parse("x + 0")
WarmUps == {Op("sum", Value(1, 1), Symbol("x")), Op("sum", Symbol("x"), Value(0, 1))}

\* the call in progress has ended, by a return or by an abort
Ended == calls > 0 /\ (pc = "aborted" \/ (pc = "idle" /\ Returned))

\* the first call of the first run
ProbeFresh(e, mo, mi) == earlier = NoEarlier /\ calls = 0 /\ Start(e, mo, mi)

\* the process ends and is started again: every object of the process is
\* constructed anew
Restart ==
    /\ earlier = NoEarlier
    /\ Ended
    /\ earlier' = [pc |-> pc, input |-> input, max_operations |-> max_operations,
                   max_iterations |-> max_iterations, result |-> result,
                   printed |-> printed, failure |-> failure]
    /\ pc' = "idle"
    /\ input' = Empty
    /\ max_operations' = 0
    /\ max_iterations' = 0
    /\ closed' = {}
    /\ queue' = {}
    /\ trace' = <<>>
    /\ best' = Empty
    /\ best_ops' = 0
    /\ ii' = 0
    /\ cached' = <<>>
    /\ transforms' = <<>>
    /\ printed' = <<>>
    /\ result' = NoResult
    /\ failure' = "none"
    /\ calls' = 0
    /\ popped' = <<>>
    /\ expanded' = <<>>
    /\ enumerated' = NotEnumerated
    /\ UNCHANGED called

\* the first call of the second run
WarmUp(e) ==
    /\ earlier # NoEarlier
    /\ calls = 0
    /\ Start(e, earlier.max_operations, earlier.max_iterations)

\* the second call of the second run: the call of the first run again
ProbeWarm ==
    /\ earlier # NoEarlier
    /\ calls = 1
    /\ Ended
    /\ Start(earlier.input, earlier.max_operations, earlier.max_iterations)

NextTwoRuns ==
    \/ \E e \in Probes, mo \in 0..MaxOps, mi \in 0..MaxItersTwoRuns : ProbeFresh(e, mo, mi)
    \/ Restart
    \/ \E e \in WarmUps : WarmUp(e)
    \/ ProbeWarm
    \/ \E next \in queue : BreakMaxOperations(next)
    \/ \E next \in queue : BreakZero(next)
    \/ \E next \in queue : Expand(next)
    \/ Return

SpecTwoRuns == Init /\ [][NextTwoRuns]_vars

\* C17: a call of simplify returns the same expression and prints the same
\* chain as the call with the same input and budgets on a fresh process,
\* whatever an earlier call left in cached and in transforms
C17_IndependentOfLeftovers ==
    (earlier # NoEarlier /\ calls = 2 /\ Ended) =>
        /\ pc = earlier.pc
        /\ result = earlier.result
        /\ printed = earlier.printed
        /\ failure = earlier.failure
\* C18: within one call of simplify no expression is enqueued twice: every
\* element of the queue is in closed, closed is the popped expressions
\* together with the queue, closed only grows, an expression newly on the
\* queue was not in closed, and the call starts with queue = closed = {input}
C18_ClosedSetDedup ==
    [][(/\ (pc = "idle" /\ pc' = "loop") => (queue' = {input'} /\ closed' = {input'})
        /\ pc' \in {"loop", "exit", "aborted"} =>
               (queue' \subseteq closed' /\ closed' = Range(popped') \cup queue')
        /\ pc \in {"loop", "exit"} =>
               (closed \subseteq closed' /\ (queue' \ queue) \cap closed = {}))]_vars

\* the second expansion of a call had a neighbour that was popped before,
\* and that neighbour is not on the queue again
C18_Witness ==
    /\ pc = "loop"
    /\ Len(expanded) >= 2
    /\ enumerated.expr = expanded[Len(expanded)]
    /\ enumerated.failed = "none"
    /\ enumerated.out \cap Range(popped) # {}
    /\ queue \cap Range(popped) = {}
    /\ queue # {}
\* the expression the last pop took
last_popped(seq) == seq[Len(seq)]

\* C19: every pop takes an expression of minimum cost: its operation count
\* is at most that of every expression that stays on the queue at that moment
C19_PopsMinimum ==
    [][(Len(popped') = Len(popped) + 1) =>
           \A other \in queue \ {last_popped(popped')} :
               op_count(last_popped(popped')) <= op_count(other)]_vars

\* the second pop of a call took an expression while one with strictly more
\* operations stayed on the queue, and the loop was left at that pop
C19_Witness ==
    /\ pc = "exit"
    /\ Len(popped) >= 2
    /\ \E other \in queue : op_count(last_popped(popped)) < op_count(other)
\* C20: as soon as an expression without operations is popped the search
\* ends in that iteration without expanding it, and the expression returned
\* after such a pop has no operation
C20_ZeroCutoff ==
    [][(/\ (Len(popped') = Len(popped) + 1 /\ op_count(last_popped(popped')) = 0) =>
               (pc' = "exit" /\ expanded' = expanded /\ op_count(best') = 0)
        /\ (/\ result = NoResult
            /\ result' # NoResult
            /\ popped # <<>>
            /\ op_count(last_popped(popped)) = 0) => op_count(result') = 0)]_vars

\* a call on an input with operations popped an expression without
\* operations second, did not expand it and returned it
C20_Witness ==
    /\ Returned
    /\ op_count(input) > 0
    /\ Len(popped) = 2
    /\ op_count(last_popped(popped)) = 0
    /\ expanded = <<input>>
    /\ result = last_popped(popped)
    /\ ii = 1
\* C21: a match that fails leaves the caller's binding as it was before the
\* call, also when the first child matched and bound placeholders before the
\* second child failed; a match that succeeds keeps every entry of it
C21_FailedMatchKeepsBinding ==
    (called.fn = "match_r" /\ called.done) =>
        /\ ~called.ret.ok => called.ret.pl = called.args[3]
        /\ called.ret.ok => agrees(called.args[3], called.ret.pl)

\* a match of two operations of one type failed on the second child after
\* the first child had matched and bound a placeholder, and the binding the
\* call started with, which is not empty, is what the caller has
C21_Witness ==
    /\ called.fn = "match_r"
    /\ called.done
    /\ ~called.ret.ok
    /\ called.args[3] # NoPlaceholders
    /\ called.args[1].k = "op"
    /\ called.args[2].k = "op"
    /\ called.args[1].type = called.args[2].type
    /\ match_r(called.args[1].lhs, called.args[2].lhs, called.args[3]).ok
    /\ match_r(called.args[1].lhs, called.args[2].lhs, called.args[3]).pl # called.args[3]
    /\ called.ret.pl = called.args[3]
\* the tags of enum class placeholder: a = 0, ..., z = 25
placeholder_tags == 0..(Len(Letters) - 1)

\* C22: the symbol of the k-th letter (a = 0, ..., z = 25) is converted into
\* the placeholder of tag k, so distinct letters give distinct tags in range
\* and the placeholder prints as the letter
C22_LetterToPlaceholder ==
    (called.fn = "convert_placeholders" /\ called.done) =>
        /\ called.ret.first = Placeholder(IndexOf(Letters, called.args[1]) - 1)
        /\ called.ret.first.p \in placeholder_tags
        /\ called.args[1] # called.args[2] => called.ret.first # called.ret.second
        /\ called.ret.text = <<called.args[1]>>

\* lhs >= rhs on doubles
value_ge(lhs, rhs) == ~IsNaN(lhs) /\ ~IsNaN(rhs) /\ ~value_less(lhs, rhs)

\* C23: the neighbours of a difference of Value(a) and Value(b) hold
\* Value(a - b) when a >= b, and otherwise the reciprocal node over
\* Value(b - a) and not Value(a - b); the neighbours of a sum and of a product
\* of two values hold Value(a + b) and Value(a * b)
C23_NumericReduction ==
    (/\ enumerated.failed = "none"
     /\ enumerated.expr.k = "op"
     /\ enumerated.expr.lhs.k = "value"
     /\ enumerated.expr.rhs.k = "value") =>
        \E a \in {enumerated.expr.lhs}, b \in {enumerated.expr.rhs} :
            /\ enumerated.expr.type = "sum" => value_add(a, b) \in enumerated.out
            /\ enumerated.expr.type = "product" => value_mul(a, b) \in enumerated.out
            /\ enumerated.expr.type = "difference" =>
                   IF value_ge(a, b)
                   THEN value_sub(a, b) \in enumerated.out
                   ELSE /\ Op("reciprocal", value_sub(b, a), Empty) \in enumerated.out
                        /\ value_sub(a, b) \notin enumerated.out
\* C24: during the enumeration of neighbours apply_transform_r is never
\* reached with a placeholder that is not bound: the lookup placeholders.at
\* does not fail, for any rule of the table and any expression enumerated
C24_NoUnboundPlaceholder ==
    /\ enumerated.failed # "out_of_range"
    /\ failure # "out_of_range"

\* an enumeration went through the table and rules fired: the neighbours
\* hold an instance of a rule side with three placeholders, x * 0 + x * x
\* from x * (0 + x) by a * (x + y) = a * x + a * y
C24_Witness ==
    /\ enumerated.failed = "none"
    /\ enumerated.expr = Op("product", Symbol("x"), Op("sum", Value(0, 1), Symbol("x")))
    /\ Op("sum", Op("product", Symbol("x"), Value(0, 1)),
                 Op("product", Symbol("x"), Symbol("x"))) \in enumerated.out
\* C25: the assertions of enumerate_transforms never fail: whenever a rule
\* fires, the instance of the replacement matches the replacement under the
\* binding, for every expression enumerated, those with values of numeric
\* reduction included
C25_AssertionsHold ==
    /\ enumerated.failed \notin {"assert_match", "assert_placeholders", "assert_merged"}
    /\ failure \notin {"assert_match", "assert_placeholders", "assert_merged"}
\* the op types to_string prints with one operand
unary == {"negative", "reciprocal"}

\* an operand: a leaf that is no Empty and no function tag, or an operation
\* whose shape is the one its type has: a unary operation holds Empty in the
\* rhs slot, a function call holds a function tag, a symbol or a placeholder
\* in the lhs slot, any other operation holds two operands
RECURSIVE operand(_)
operand(expr) ==
    IF expr.k = "op"
    THEN IF expr.type \in unary
         THEN operand(expr.lhs) /\ expr.rhs = Empty
         ELSE IF expr.type = "function"
         THEN expr.lhs.k \in {"function", "symbol", "placeholder"} /\ operand(expr.rhs)
         ELSE operand(expr.lhs) /\ operand(expr.rhs)
    ELSE expr.k \in {"value", "constant", "symbol", "placeholder"}

well_formed(expr) == expr = Empty \/ operand(expr)

\* C26: the enumeration of neighbours keeps the shapes of operations: every
\* neighbour of a well-formed expression is well-formed, no rule is applied
\* to an Empty operand or to a function tag, and Empty has no neighbour
C26_ShapePreserved ==
    /\ (enumerated.failed = "none" /\ well_formed(enumerated.expr)) =>
           \A n \in enumerated.out : well_formed(n)
    /\ (enumerated.failed = "none" /\ enumerated.expr = Empty) => enumerated.out = {}
\* C27: only expressions strictly inside the budget are expanded: every
\* expression simplify enumerates the neighbours of has an operation count c
\* with 0 < c < max_operations, and when the search stops on the cutoff of
\* max_operations every expression still on the queue has at least
\* max_operations operations
C27_ExpandedInsideBudget ==
    /\ \A i \in DOMAIN expanded :
           0 < op_count(expanded[i]) /\ op_count(expanded[i]) < max_operations
    /\ (popped # <<>> /\ op_count(last_popped(popped)) >= max_operations) =>
           \A other \in queue : op_count(other) >= max_operations

\* the search expanded an expression, then popped one at the cutoff and left
\* the loop with expressions still on the queue
C27_Witness ==
    /\ pc = "exit"
    /\ expanded # <<>>
    /\ op_count(last_popped(popped)) >= max_operations
    /\ queue # {}
\* C28: the trace map is a tree rooted at the input: the input has no
\* entry, every other expression of closed has one, an entry is written when
\* its key is enqueued and never changed, the parent of an entry was popped
\* and expanded before, and the chain of parents from every expression of
\* closed ends at the input, so traceback terminates
C28_TraceIsTree ==
    [][(/\ pc' \in {"loop", "exit", "aborted"} =>
               /\ input' \notin DOMAIN trace'
               /\ DOMAIN trace' = closed' \ {input'}
               /\ \A key \in DOMAIN trace' : trace'[key] \in Range(expanded')
               /\ \A expr \in closed' : traceback(expr, trace', 0)[1] = input'
        /\ pc \in {"loop", "exit"} =>
               \A key \in DOMAIN trace : key \in DOMAIN trace' /\ trace'[key] = trace[key])]_vars

\* two expansions wrote entries: an expression of closed has a parent that
\* has a parent, and the second expansion left the entries of the first alone
C28_Witness ==
    /\ pc = "loop"
    /\ Len(expanded) = 2
    /\ \E key \in DOMAIN trace :
           /\ trace[key] = expanded[2]
           /\ trace[key] \in DOMAIN trace
           /\ trace[trace[key]] = input
    /\ enumerated.expr = expanded[2]
    /\ enumerated.out \cap DOMAIN trace # {}
\* the operation counts of the input and of everything popped so far
seen_ops(expr, seq) == {op_count(expr)} \cup {op_count(seq[i]) : i \in DOMAIN seq}

\* C29: best is replaced only by a strictly smaller expression: inside a call
\* best_ops never increases, it is the operation count of best and the
\* minimum over the input and the expressions popped so far, and a call in
\* which nothing popped was strictly smaller than the input returns the
\* input itself with a traceback of one line
C29_BestOnlyShrinks ==
    [][(/\ pc' \in {"loop", "exit"} =>
               /\ best_ops' = op_count(best')
               /\ best_ops' \in seen_ops(input', popped')
               /\ \A ops \in seen_ops(input', popped') : best_ops' <= ops
        /\ (pc = "loop" /\ pc' \in {"loop", "exit", "aborted"}) =>
               /\ best_ops' <= best_ops
               /\ best' # best => op_count(best') < op_count(best)
        /\ (pc \in {"loop", "exit"} /\ pc' = "idle"
              /\ \A i \in DOMAIN popped : op_count(popped[i]) >= op_count(input)) =>
               /\ result' = input
               /\ printed' = <<trace_line(input)>>)]_vars

\* a call returned its input although it had popped and expanded an
\* expression of the same size as the input that is not the input
C29_Witness ==
    /\ pc = "idle"
    /\ result = input
    /\ Len(printed) = 1
    /\ \E i \in DOMAIN expanded :
           expanded[i] # input /\ op_count(expanded[i]) = op_count(input)
    /\ \A i \in DOMAIN popped : op_count(popped[i]) >= op_count(input)
\* the expressions reachable from those of set by neighbour steps, each
\* enumerated with nothing cached under the table in use
RECURSIVE reachable(_)
reachable(set) ==
    With(set \cup UNION {enumeration(expr).out : expr \in set}, LAMBDA more :
        IF more = set THEN set ELSE reachable(more))

\* the loop of the returned call ended on the empty frontier: iterations
\* were left and every popped expression was expanded, none ended in a break
exhausted ==
    /\ Returned
    /\ queue = {}
    /\ ii < max_iterations
    /\ expanded = popped

====
